---- MODULE Spec2Model ----
\* Sector-shape resolution and type-specialised dispatch
\* (filecoin-proofs/src/types/sector_shapes.rs).
\*
\* A u64 is represented by the set of positions of its set bits, so that the
\* whole u64 range (sizes up to 64 GiB and beyond) is available: equality of
\* values is equality of the sets, count_ones is the cardinality and
\* trailing_zeros is the least element.  A u32 is represented by two 16-bit
\* limbs <<hi, lo>>, so that a wrapped subtraction keeps its 32-bit width.
EXTENDS Integers, Sequences, FiniteSets, TLC

VARIABLES sector_size, op, outcome, panic, ret, fcalls, locals, preds

vars == <<sector_size, op, outcome, panic, ret, fcalls, locals, preds>>

-----------------------------------------------------------------------------
\* Bounds of the model.

\* Largest number of set bits of the generated input values.
MaxOnes == 2

\* Largest number of additional arguments forwarded to the generic operation.
MaxArgs == 2

-----------------------------------------------------------------------------
\* u64 values as bit sets.

u64_BITS == 64

BitPositions == 0 .. (u64_BITS - 1)

\* The bit set of a small natural number (n < 2^31).
BitsOf(n) == {i \in 0 .. 30 : (n \div (2 ^ i)) % 2 = 1}

\* v * 2^k, for a product that fits in 64 bits.
TimesPow2(v, k) == {i + k : i \in v}

count_ones(v) == Cardinality(v)

trailing_zeros(v) ==
    IF v = {} THEN u64_BITS ELSE CHOOSE i \in v : \A j \in v : i <= j

-----------------------------------------------------------------------------
\* u32 values as two 16-bit limbs <<hi, lo>>.

Radix == 2 ^ 16

u32(n) == <<n \div Radix, n % Radix>>

u32_lt(a, b) == a[1] < b[1] \/ (a[1] = b[1] /\ a[2] < b[2])

u32_min(a, b) == IF u32_lt(b, a) THEN b ELSE a

u32_wrapping_sub(a, b) ==
    LET lo     == a[2] - b[2]
        borrow == IF lo < 0 THEN 1 ELSE 0
        hi     == a[1] - b[1] - borrow
    IN  <<(hi + Radix) % Radix, (lo + Radix) % Radix>>

\* a / d for a small divisor d.
u32_div(a, d) ==
    LET r == a[1] % d
    IN  <<a[1] \div d, (r * Radix + a[2]) \div d>>

\* a * m for a small factor m (wrapping).
u32_mul(a, m) ==
    LET lo == a[2] * m
    IN  <<(a[1] * m + lo \div Radix) % Radix, lo % Radix>>

\* a % d for a small divisor d.
u32_rem(a, d) == u32(((a[1] % d) * Radix + a[2]) % d)

\* The value of a u32 below 2^31 as an integer.
as_int(a) == a[1] * Radix + a[2]

-----------------------------------------------------------------------------
\* Options: None is the empty sequence, Some(x) the one-element sequence.

None == <<>>
Some(x) == <<x>>
is_some(o) == Len(o) = 1
unwrap(o) == o[1]


-----------------------------------------------------------------------------
\* Sector-size constants (crate::constants) and the SectorSize enumeration
\* (crate::types::SectorSize) with its fallible conversion from u64.

SECTOR_SIZE_2_KIB   == BitsOf(2048)
SECTOR_SIZE_4_KIB   == BitsOf(4096)
SECTOR_SIZE_16_KIB  == BitsOf(16384)
SECTOR_SIZE_32_KIB  == BitsOf(32768)
SECTOR_SIZE_8_MIB   == TimesPow2(BitsOf(8), 20)
SECTOR_SIZE_16_MIB  == TimesPow2(BitsOf(16), 20)
SECTOR_SIZE_512_MIB == TimesPow2(BitsOf(512), 20)
SECTOR_SIZE_1_GIB   == TimesPow2(BitsOf(1), 30)
SECTOR_SIZE_32_GIB  == TimesPow2(BitsOf(32), 30)
SECTOR_SIZE_64_GIB  == TimesPow2(BitsOf(64), 30)

SectorSize ==
    {"KiB2", "KiB4", "KiB16", "KiB32", "MiB8", "MiB16", "MiB512",
     "GiB1", "GiB32", "GiB64"}

\* $size.try_into(): Some(variant) for a known size, None for an error.
try_into(size) ==
    CASE size = SECTOR_SIZE_2_KIB   -> Some("KiB2")
      [] size = SECTOR_SIZE_4_KIB   -> Some("KiB4")
      [] size = SECTOR_SIZE_16_KIB  -> Some("KiB16")
      [] size = SECTOR_SIZE_32_KIB  -> Some("KiB32")
      [] size = SECTOR_SIZE_8_MIB   -> Some("MiB8")
      [] size = SECTOR_SIZE_16_MIB  -> Some("MiB16")
      [] size = SECTOR_SIZE_512_MIB -> Some("MiB512")
      [] size = SECTOR_SIZE_1_GIB   -> Some("GiB1")
      [] size = SECTOR_SIZE_32_GIB  -> Some("GiB32")
      [] size = SECTOR_SIZE_64_GIB  -> Some("GiB64")
      [] OTHER                      -> None

-----------------------------------------------------------------------------
\* Shapes: an LCTree type is identified by its three arities.

U0 == 0
U2 == 2
U8 == 8

LCTree(arity, sub, top) ==
    [Arity |-> arity, SubTreeArity |-> sub, TopTreeArity |-> top]

SectorShapeBase == LCTree(U8, U0, U0)
SectorShapeSub2 == LCTree(U8, U2, U0)
SectorShapeSub8 == LCTree(U8, U8, U0)
SectorShapeTop2 == LCTree(U8, U8, U2)

SectorShape2KiB   == SectorShapeBase
SectorShape8MiB   == SectorShapeBase
SectorShape512MiB == SectorShapeBase

SectorShape4KiB  == SectorShapeSub2
SectorShape16MiB == SectorShapeSub2
\* A 1 GiB sector given the shape of the 32 GiB one.
SectorShape1GiB_wrong == SectorShapeSub8

SectorShape1GiB  == SectorShapeSub2

\* A 16 KiB sector given the shape of the 4 KiB one.
SectorShape16KiB_wrong == SectorShapeSub2

SectorShape16KiB == SectorShapeSub8
SectorShape32GiB == SectorShapeSub8

SectorShape32KiB == SectorShapeTop2
SectorShape64GiB == SectorShapeTop2

is_sector_shape_base(size) ==
    IF size \in {SECTOR_SIZE_2_KIB, SECTOR_SIZE_8_MIB, SECTOR_SIZE_512_MIB}
    THEN TRUE ELSE FALSE

is_sector_shape_sub2(size) ==
    IF size \in {SECTOR_SIZE_4_KIB, SECTOR_SIZE_16_MIB, SECTOR_SIZE_1_GIB}
    THEN TRUE ELSE FALSE

\* The sub8 predicate also accepting a top2 size.
is_sector_shape_sub8_overlap(size) ==
    IF size \in {SECTOR_SIZE_16_KIB, SECTOR_SIZE_32_KIB, SECTOR_SIZE_32_GIB}
    THEN TRUE ELSE FALSE

is_sector_shape_sub8(size) ==
    IF size \in {SECTOR_SIZE_16_KIB, SECTOR_SIZE_32_GIB}
    THEN TRUE ELSE FALSE

is_sector_shape_top2(size) ==
    IF size \in {SECTOR_SIZE_32_KIB, SECTOR_SIZE_64_GIB}
    THEN TRUE ELSE FALSE

-----------------------------------------------------------------------------
\* Outcomes of a call: a return with the invocations of $f it made, or a panic.

Returned(value, calls) ==
    [outcome |-> "returned", panic |-> "", ret |-> Some(value), fcalls |-> calls]

Panicked(msg) ==
    [outcome |-> "panicked", panic |-> msg, ret |-> None, fcalls |-> <<>>]

UNSUPPORTED == "unsupported sector size"

\* The generic operation $f handed to the dispatcher, instantiated at the
\* shape Tree.  Like arities_to_usize of the tests it returns the arities of
\* Tree; it also returns the arguments it received.
arities_to_usize(Tree) ==
    <<Tree.Arity, Tree.SubTreeArity, Tree.TopTreeArity>>

F(Tree, args) == [arities |-> arities_to_usize(Tree), args |-> args]

\* An arm that does not forward the arguments.
Invoke_no_args(Tree, args) ==
    Returned(F(Tree, <<>>), <<[tree |-> Tree, args |-> <<>>]>>)

\* $f::<Tree>($($args),*): one invocation of $f at the shape Tree, whose value
\* is the value of the match arm.
Invoke(Tree, args) ==
    Returned(F(Tree, args), <<[tree |-> Tree, args |-> args]>>)

\* The match without the arm of the 32 GiB variant.
with_shape_enum_missing_arm(size, args) ==
    CASE size = "KiB2"   -> Invoke(SectorShape2KiB, args)
      [] size = "KiB4"   -> Invoke(SectorShape4KiB, args)
      [] size = "KiB16"  -> Invoke(SectorShape16KiB, args)
      [] size = "KiB32"  -> Invoke(SectorShape32KiB, args)
      [] size = "MiB8"   -> Invoke(SectorShape8MiB, args)
      [] size = "MiB16"  -> Invoke(SectorShape16MiB, args)
      [] size = "MiB512" -> Invoke(SectorShape512MiB, args)
      [] size = "GiB1"   -> Invoke(SectorShape1GiB, args)
      [] size = "GiB64"  -> Invoke(SectorShape64GiB, args)
      [] OTHER           -> Panicked(UNSUPPORTED)

with_shape_enum(size, args) ==
    CASE size = "KiB2"   -> Invoke(SectorShape2KiB, args)
      [] size = "KiB4"   -> Invoke(SectorShape4KiB, args)
      [] size = "KiB16"  -> Invoke(SectorShape16KiB, args)
      [] size = "KiB32"  -> Invoke(SectorShape32KiB, args)
      [] size = "MiB8"   -> Invoke(SectorShape8MiB, args)
      [] size = "MiB16"  -> Invoke(SectorShape16MiB, args)
      [] size = "MiB512" -> Invoke(SectorShape512MiB, args)
      [] size = "GiB1"   -> Invoke(SectorShape1GiB, args)
      [] size = "GiB32"  -> Invoke(SectorShape32GiB, args)
      [] size = "GiB64"  -> Invoke(SectorShape64GiB, args)
      [] OTHER           -> Panicked(UNSUPPORTED)

with_shape(size, args) ==
    LET e == try_into(size)
    IN  IF ~is_some(e)
        THEN Panicked(UNSUPPORTED)
        ELSE with_shape_enum(unwrap(e), args)

-----------------------------------------------------------------------------
\* canonical_shape (test module).

NODE_LOG == 5

max_tree_log == 3

log_max_base == 27

log_base == max_tree_log

\* The base taking every node up to the cap, not whole oct-tree levels only.
log_in_base_of_unrounded(log_nodes) ==
    u32_min(u32(log_max_base), log_nodes)

\* How many nodes in base?
log_in_base_of(log_nodes) ==
    u32_min(u32(log_max_base), u32_mul(u32_div(log_nodes, log_base), log_base))

\* A remainder that fits the sub tree rounded up to a full oct tree.
log_sub_top_full_sub(log_upper, log_rem) ==
    IF u32_lt(u32(0), log_upper)
    THEN IF log_rem = u32(0)
         THEN <<Some(u32(max_tree_log)), None>>
         ELSE IF u32_lt(u32(max_tree_log), log_upper)
              THEN <<Some(u32(max_tree_log)), Some(log_rem)>>
              ELSE <<Some(u32(max_tree_log)), None>>
    ELSE <<None, None>>

\* A remainder that fits the sub tree put in the top tree.
log_sub_top_top_only(log_upper, log_rem) ==
    IF u32_lt(u32(0), log_upper)
    THEN IF log_rem = u32(0)
         THEN <<Some(u32(max_tree_log)), None>>
         ELSE IF u32_lt(u32(max_tree_log), log_upper)
              THEN <<Some(u32(max_tree_log)), Some(log_rem)>>
              ELSE <<None, Some(log_rem)>>
    ELSE <<None, None>>

\* The remainder above a full sub tree dropped.
log_sub_top_no_rem(log_upper, log_rem) ==
    IF u32_lt(u32(0), log_upper)
    THEN IF log_rem = u32(0)
         THEN <<Some(u32(max_tree_log)), None>>
         ELSE IF u32_lt(u32(max_tree_log), log_upper)
              THEN <<Some(u32(max_tree_log)), None>>
              ELSE <<Some(log_rem), None>>
    ELSE <<None, None>>

\* (log_sub, log_top) of the sub and top trees.
log_sub_top(log_upper, log_rem) ==
    IF u32_lt(u32(0), log_upper)
    THEN IF log_rem = u32(0)
         THEN <<Some(u32(max_tree_log)), None>>
         ELSE IF u32_lt(u32(max_tree_log), log_upper)
              THEN <<Some(u32(max_tree_log)), Some(log_rem)>>
              ELSE <<Some(log_rem), None>>
    ELSE <<None, None>>

\* 1 << l
shl1(l) == 2 ^ as_int(l)

\* overflow_checks tells whether the build panics on integer overflow (a debug
\* build) or wraps (a release build).  The result carries the local values.
canonical_shape(size, overflow_checks) ==
    IF count_ones(size) # 1
    THEN Panicked("assertion failed: count_ones == 1")
    ELSE LET log_byte_size == u32(trailing_zeros(size))
         IN  IF overflow_checks /\ u32_lt(log_byte_size, u32(NODE_LOG))
             THEN Panicked("attempt to subtract with overflow")
             ELSE LET log_nodes   == u32_wrapping_sub(log_byte_size, u32(NODE_LOG))
                      log_in_base == log_in_base_of(log_nodes)
                      log_upper   == u32_wrapping_sub(log_nodes, log_in_base)
                      log_rem     == u32_rem(log_upper, max_tree_log)
                      st          == log_sub_top(log_upper, log_rem)
                      log_sub     == st[1]
                      log_top     == st[2]
                      base        == shl1(u32(log_base))
                      sub         == IF is_some(log_sub) THEN shl1(unwrap(log_sub)) ELSE 0
                      top         == IF is_some(log_top) THEN shl1(unwrap(log_top)) ELSE 0
                 IN  [outcome |-> "returned", panic |-> "",
                      ret |-> Some(<<base, sub, top>>), fcalls |-> <<>>,
                      locals |-> [log_byte_size |-> log_byte_size,
                                  log_nodes     |-> log_nodes,
                                  log_in_base   |-> log_in_base,
                                  log_upper     |-> log_upper,
                                  log_rem       |-> log_rem,
                                  log_sub       |-> log_sub,
                                  log_top       |-> log_top]]

\* test_with_shape_macro_aux: the expected shape, then the dispatched one,
\* then the assertion that they are equal.
test_with_shape_macro_aux(size, overflow_checks) ==
    LET expected == canonical_shape(size, overflow_checks)
    IN  IF expected.outcome = "panicked"
        THEN [outcome |-> "panicked", panic |-> expected.panic, fcalls |-> <<>>,
              expected |-> None, arities |-> None]
        ELSE LET r == with_shape(size, <<>>)
             IN  IF r.outcome = "panicked"
                 THEN [outcome |-> "panicked", panic |-> r.panic,
                       fcalls |-> <<>>,
                       expected |-> expected.ret, arities |-> None]
                 ELSE LET arities == Some(unwrap(r.ret).arities)
                      IN  [outcome |-> IF arities = expected.ret
                                       THEN "returned" ELSE "panicked",
                           panic |-> IF arities = expected.ret
                                     THEN "" ELSE "Wrong shape for sector size",
                           fcalls |-> r.fcalls,
                           expected |-> expected.ret, arities |-> arities]

\* The sizes test_with_shape_macro hands to test_with_shape_macro_aux.
test_with_shape_macro ==
    {SECTOR_SIZE_2_KIB, SECTOR_SIZE_4_KIB, SECTOR_SIZE_8_MIB, SECTOR_SIZE_16_MIB,
     SECTOR_SIZE_512_MIB, SECTOR_SIZE_1_GIB, SECTOR_SIZE_32_GIB,
     SECTOR_SIZE_64_GIB}

-----------------------------------------------------------------------------
\* Inputs.

RECURSIVE BitSets(_)
\* The u64 values with at most n set bits.
BitSets(n) ==
    IF n = 0 THEN {{}}
    ELSE LET P == BitSets(n - 1)
         IN  P \cup {v \cup {i} : v \in P, i \in BitPositions}

SupportedSizes ==
    {SECTOR_SIZE_2_KIB, SECTOR_SIZE_4_KIB, SECTOR_SIZE_16_KIB,
     SECTOR_SIZE_32_KIB, SECTOR_SIZE_8_MIB, SECTOR_SIZE_16_MIB,
     SECTOR_SIZE_512_MIB, SECTOR_SIZE_1_GIB, SECTOR_SIZE_32_GIB,
     SECTOR_SIZE_64_GIB}

\* 0 and every power of two, every value of few bits, 3,000,000, u64::MAX,
\* and the neighbours s - 1 and s + 1 of the supported sizes.
Inputs ==
    BitSets(MaxOnes)
        \cup {BitsOf(3000000), BitPositions}
        \cup {s \cup {0} : s \in SupportedSizes}
        \cup {0 .. (trailing_zeros(s) - 1) : s \in SupportedSizes}

ArgVals == {"x", "y"}

ArgSeqs == UNION {[1 .. n -> ArgVals] : n \in 0 .. MaxArgs}

PredNames ==
    {"is_sector_shape_base", "is_sector_shape_sub2", "is_sector_shape_sub8",
     "is_sector_shape_top2"}

-----------------------------------------------------------------------------
\* The state machine: a caller holding one sector size calls one operation
\* on it (or the category predicates, one after another).

Init ==
    /\ sector_size \in Inputs
    /\ op = "none"
    /\ outcome = "pending"
    /\ panic = ""
    /\ ret = None
    /\ fcalls = <<>>
    /\ locals = None
    /\ preds = [called |-> {}, truths |-> {}]

CallWithShape ==
    /\ op = "none"
    /\ \E args \in ArgSeqs :
         LET r == with_shape(sector_size, args)
         IN  /\ op' = "with_shape"
             /\ outcome' = r.outcome
             /\ panic' = r.panic
             /\ ret' = r.ret
             /\ fcalls' = r.fcalls
             /\ locals' = Some([args |-> args])
    /\ UNCHANGED <<sector_size, preds>>

CallWithShapeEnum ==
    /\ op = "none"
    /\ \E e \in SectorSize, args \in ArgSeqs :
         /\ try_into(sector_size) = Some(e)
         /\ LET r == with_shape_enum(e, args)
            IN  /\ op' = "with_shape_enum"
                /\ outcome' = r.outcome
                /\ panic' = r.panic
                /\ ret' = r.ret
                /\ fcalls' = r.fcalls
                /\ locals' = Some([args |-> args, size |-> e])
    /\ UNCHANGED <<sector_size, preds>>

CallCanonicalShape ==
    /\ op = "none"
    /\ \E overflow_checks \in BOOLEAN :
         LET r == canonical_shape(sector_size, overflow_checks)
         IN  /\ op' = "canonical_shape"
             /\ outcome' = r.outcome
             /\ panic' = r.panic
             /\ ret' = r.ret
             /\ fcalls' = r.fcalls
             /\ locals' = IF r.outcome = "returned" THEN Some(r.locals) ELSE None
    /\ UNCHANGED <<sector_size, preds>>

CallTestWithShapeMacroAux ==
    /\ op = "none"
    /\ \E overflow_checks \in BOOLEAN :
         LET r == test_with_shape_macro_aux(sector_size, overflow_checks)
         IN  /\ op' = "test_with_shape_macro_aux"
             /\ outcome' = r.outcome
             /\ panic' = r.panic
             /\ ret' = None
             /\ fcalls' = r.fcalls
             /\ locals' = Some([expected |-> r.expected, arities |-> r.arities])
    /\ UNCHANGED <<sector_size, preds>>

CallPredicate(name, value) ==
    /\ op \in {"none", "is_sector_shape"}
    /\ name \notin preds.called
    /\ op' = "is_sector_shape"
    /\ outcome' = "returned"
    /\ ret' = Some(value)
    /\ preds' = [called |-> preds.called \cup {name},
                 truths |-> IF value THEN preds.truths \cup {name}
                            ELSE preds.truths]
    /\ UNCHANGED <<sector_size, panic, fcalls, locals>>

CallIsSectorShapeBase ==
    CallPredicate("is_sector_shape_base", is_sector_shape_base(sector_size))

CallIsSectorShapeSub2 ==
    CallPredicate("is_sector_shape_sub2", is_sector_shape_sub2(sector_size))

CallIsSectorShapeSub8 ==
    CallPredicate("is_sector_shape_sub8", is_sector_shape_sub8(sector_size))

CallIsSectorShapeTop2 ==
    CallPredicate("is_sector_shape_top2", is_sector_shape_top2(sector_size))

Next ==
    \/ CallWithShape
    \/ CallWithShapeEnum
    \/ CallCanonicalShape
    \/ CallTestWithShapeMacroAux
    \/ CallIsSectorShapeBase
    \/ CallIsSectorShapeSub2
    \/ CallIsSectorShapeSub8
    \/ CallIsSectorShapeTop2

Spec == Init /\ [][Next]_vars

-----------------------------------------------------------------------------
\* Properties.

IsPowerOfTwo(v) == Cardinality(v) = 1

\* The shape type named after each supported size.
ShapeNamedFor(size) ==
    CASE size = SECTOR_SIZE_2_KIB   -> SectorShape2KiB
      [] size = SECTOR_SIZE_4_KIB   -> SectorShape4KiB
      [] size = SECTOR_SIZE_16_KIB  -> SectorShape16KiB
      [] size = SECTOR_SIZE_32_KIB  -> SectorShape32KiB
      [] size = SECTOR_SIZE_8_MIB   -> SectorShape8MiB
      [] size = SECTOR_SIZE_16_MIB  -> SectorShape16MiB
      [] size = SECTOR_SIZE_512_MIB -> SectorShape512MiB
      [] size = SECTOR_SIZE_1_GIB   -> SectorShape1GiB
      [] size = SECTOR_SIZE_32_GIB  -> SectorShape32GiB
      [] size = SECTOR_SIZE_64_GIB  -> SectorShape64GiB

TestDone == op = "test_with_shape_macro_aux"

C2_TotalityFailure ==
    op = "with_shape" =>
        IF sector_size \in SupportedSizes
        THEN /\ outcome = "returned"
             /\ Len(fcalls) = 1
             /\ fcalls[1].tree = ShapeNamedFor(sector_size)
        ELSE /\ outcome = "panicked"
             /\ panic = UNSUPPORTED
             /\ fcalls = <<>>
             /\ ret = None

C2_Witness ==
    /\ op = "with_shape"
    /\ sector_size = SECTOR_SIZE_32_GIB
    /\ outcome = "returned"
    /\ fcalls[1].tree = SectorShape32GiB

\* C3: once the four category predicates have been evaluated on a size,
\* exactly one returned true if the size is supported, and none did otherwise.
C3_Partition ==
    preds.called = PredNames =>
        IF sector_size \in SupportedSizes
        THEN Cardinality(preds.truths) = 1
        ELSE preds.truths = {}

C3_Witness ==
    /\ preds.called = PredNames
    /\ sector_size = SECTOR_SIZE_32_KIB
    /\ preds.truths = {"is_sector_shape_top2"}

\* The spec's concrete scenarios: size and expected triple.
Scenarios ==
    {<<SECTOR_SIZE_2_KIB, <<8, 0, 0>>>>,
     <<SECTOR_SIZE_4_KIB, <<8, 2, 0>>>>,
     <<SECTOR_SIZE_16_KIB, <<8, 8, 0>>>>,
     <<SECTOR_SIZE_32_KIB, <<8, 8, 2>>>>,
     <<SECTOR_SIZE_8_MIB, <<8, 0, 0>>>>,
     <<SECTOR_SIZE_1_GIB, <<8, 2, 0>>>>,
     <<SECTOR_SIZE_64_GIB, <<8, 8, 2>>>>}

DispatchedAs(triple) ==
    op = "with_shape" =>
        /\ outcome = "returned"
        /\ arities_to_usize(fcalls[1].tree) = triple
        /\ unwrap(ret).arities = triple

CanonicalIs(triple) ==
    (op = "canonical_shape" /\ outcome = "returned") => ret = Some(triple)

C5_FailsIffNotPowerOfTwo ==
    op = "canonical_shape" =>
        /\ outcome = "panicked" <=> ~IsPowerOfTwo(sector_size)
        /\ outcome = "panicked" => panic = "assertion failed: count_ones == 1"
        /\ IsPowerOfTwo(sector_size) => outcome = "returned" /\ is_some(ret)

TopNeedsSub(triple) == triple[3] > 0 => triple[2] > 0

\* C6: every arity triple produced has a sub level whenever it has a top
\* level: the result of canonical_shape, and the shape the dispatcher
\* selects (each of the four shape categories).
C6_TopNeedsSub ==
    /\ (op = "canonical_shape" /\ outcome = "returned")
         => TopNeedsSub(unwrap(ret))
    /\ (op \in {"with_shape", "with_shape_enum"} /\ outcome = "returned")
         => /\ TopNeedsSub(arities_to_usize(fcalls[1].tree))
            /\ fcalls[1].tree \in {SectorShapeBase, SectorShapeSub2,
                                   SectorShapeSub8, SectorShapeTop2}
    /\ \A Tree \in {SectorShapeBase, SectorShapeSub2, SectorShapeSub8,
                    SectorShapeTop2} : TopNeedsSub(arities_to_usize(Tree))

C6_Witness ==
    /\ op = "canonical_shape"
    /\ outcome = "returned"
    /\ unwrap(ret)[3] > 0
    /\ unwrap(ret)[2] > 0

\* C7: for a supported size the dispatcher returns, has invoked F exactly
\* once, with the additional arguments it was given, in the same order, and
\* returns F's result; nothing else is recorded.
C7_ForwardsOnce ==
    /\ (op = "with_shape" /\ sector_size \in SupportedSizes)
         => outcome = "returned"
    /\ op = "with_shape_enum" => outcome = "returned"
    /\ (op \in {"with_shape", "with_shape_enum"} /\ outcome = "returned")
         => /\ Len(fcalls) = 1
            /\ fcalls[1].args = unwrap(locals).args
            /\ ret = Some(F(fcalls[1].tree, unwrap(locals).args))
            /\ panic = ""
            /\ preds = [called |-> {}, truths |-> {}]

C7_Witness ==
    /\ op = "with_shape"
    /\ outcome = "returned"
    /\ unwrap(locals).args = <<"x", "y">>
    /\ unwrap(ret).args = <<"x", "y">>

\* C8: for a power-of-two size of at least 32 bytes, log_in_base is the
\* largest multiple of 3 that exceeds neither log_nodes nor the cap 27.
C8_LogInBaseLargestMultiple ==
    (op = "canonical_shape" /\ outcome = "returned"
       /\ trailing_zeros(sector_size) >= 5)
        => LET n == as_int(unwrap(locals).log_nodes)
               b == as_int(unwrap(locals).log_in_base)
           IN  /\ n = trailing_zeros(sector_size) - 5
               /\ b % 3 = 0
               /\ b <= n
               /\ b <= 27
               /\ \A m \in 0 .. 64 :
                    (m % 3 = 0 /\ m <= n /\ m <= 27) => m <= b

C8_Witness ==
    /\ op = "canonical_shape"
    /\ outcome = "returned"
    /\ sector_size = SECTOR_SIZE_16_MIB
    /\ unwrap(locals).log_nodes = u32(19)
    /\ unwrap(locals).log_in_base = u32(18)

\* C9: for every supported size the shape with_shape selects is
\* SectorShapeBase, Sub2, Sub8 or Top2 exactly when the predicate of that
\* category holds of the size.
C9_DispatchAgreesWithPredicates ==
    (op = "with_shape" /\ sector_size \in SupportedSizes)
        => /\ outcome = "returned"
           /\ fcalls[1].tree = SectorShapeBase
                <=> is_sector_shape_base(sector_size)
           /\ fcalls[1].tree = SectorShapeSub2
                <=> is_sector_shape_sub2(sector_size)
           /\ fcalls[1].tree = SectorShapeSub8
                <=> is_sector_shape_sub8(sector_size)
           /\ fcalls[1].tree = SectorShapeTop2
                <=> is_sector_shape_top2(sector_size)

C9_Witness ==
    /\ op = "with_shape"
    /\ sector_size = SECTOR_SIZE_16_KIB
    /\ fcalls[1].tree = SectorShapeSub8
    /\ is_sector_shape_sub8(sector_size)

\* log2 of an arity, an absent level (0) counting as one child.
Log2Arity(a) == CHOOSE l \in 0 .. 3 : 2 ^ l = (IF a = 0 THEN 1 ELSE a)

OptLog(o) == IF is_some(o) THEN as_int(unwrap(o)) ELSE 0

\* C10: for every power-of-two size from 2^5 to 2^37,
\* log_in_base + log_sub + log_top = log_nodes, an absent level counting as
\* 0; and 2^log_in_base * max(sub,1) * max(top,1) = size / 32 for the
\* returned arities.
C10_AllNodesAccounted ==
    (op = "canonical_shape" /\ outcome = "returned"
       /\ trailing_zeros(sector_size) \in 5 .. 37)
        => LET l == unwrap(locals)
               t == unwrap(ret)
           IN  /\ as_int(l.log_in_base) + OptLog(l.log_sub) + OptLog(l.log_top)
                    = as_int(l.log_nodes)
               /\ {as_int(l.log_in_base) + Log2Arity(t[2]) + Log2Arity(t[3])}
                    = {i - 5 : i \in sector_size}

C10_Witness ==
    /\ op = "canonical_shape"
    /\ outcome = "returned"
    /\ sector_size = {37}
    /\ ret = Some(<<8, 8, 4>>)

====
